---- MODULE Spec2Model ----
(***************************************************************************)
(* Veo gallery: the App component (src/App.tsx), its earlier variant       *)
(* (src/unnamed/part_000) and the remix editor with its mask overlay       *)
(* (src/unnamed/part_001), as a state machine.                             *)
(*                                                                         *)
(* JavaScript strings are TLA+ strings (sequences of characters): Len,     *)
(* \o and SubSeq act on them as length, + and substring do.                *)
(***************************************************************************)
EXTENDS Integers, Sequences, FiniteSets, TLC

\* ------------------------------------------------------------------ bounds
\* The gallery list is not allowed to grow beyond MaxVideos records.
MaxVideos == 4
\* A job reports not-done at most MaxPolls times before it reports done.
MaxPolls == 2
\* A completed job yields at most MaxHandles result handles.
MaxHandles == 2

\* ------------------------------------------------------------ small inputs
\* Names of the files the picker can hand over.
FileNames == {"clip.mov", "a.tar.gz", "notes"}
\* Texts typed into the search box.
SearchInputs == {"", " ", "  ", "WAVE", "cat"}
\* Texts typed into the editor's instruction field.
EditPrompts == {"", " \n", "add a cat"}
\* Keys pressed in the search box.
Keys == {"Enter", "a"}

\* --------------------------------------------------------------- JS values
Null == [null |-> TRUE]
Undefined == [undefined |-> TRUE]

Qualities == {"fast", "quality"}
Durations == {"short", "medium", "long"}
AspectRatios == {"16:9", "9:16", "1:1"}

\* ---------------------------------------------------------- string helpers
Char(s, i) == SubSeq(s, i, i)

Min(a, b) == IF a <= b THEN a ELSE b

Max(a, b) == IF a >= b THEN a ELSE b

UpperCaseLetters == "ABCDEFGHIJKLMNOPQRSTUVWXYZ"

LowerCaseLetters == "abcdefghijklmnopqrstuvwxyz"

\* String.prototype.toLowerCase on one character of the ASCII range.
lowerCaseOf ==
  [c \in {Char(UpperCaseLetters, i) : i \in 1..26} |->
     Char(LowerCaseLetters, CHOOSE i \in 1..26 : Char(UpperCaseLetters, i) = c)]

lowerChar(c) == IF c \in DOMAIN lowerCaseOf THEN lowerCaseOf[c] ELSE c

RECURSIVE toLowerCase(_)
toLowerCase(s) ==
  IF Len(s) = 0 THEN ""
  ELSE lowerChar(Char(s, 1)) \o toLowerCase(SubSeq(s, 2, Len(s)))

\* String.prototype.includes: sub occurs in s at some position.
includes(s, sub) ==
  \E i \in 1..(Len(s) - Len(sub) + 1) : SubSeq(s, i, i + Len(sub) - 1) = sub

WhiteSpace == {" ", "\n", "\t", "\r"}

RECURSIVE trimStart(_)
trimStart(s) ==
  IF Len(s) > 0 /\ Char(s, 1) \in WhiteSpace
    THEN trimStart(SubSeq(s, 2, Len(s)))
    ELSE s

RECURSIVE trimEnd(_)
trimEnd(s) ==
  IF Len(s) > 0 /\ Char(s, Len(s)) \in WhiteSpace
    THEN trimEnd(SubSeq(s, 1, Len(s) - 1))
    ELSE s

\* String.prototype.trim
trim(s) == trimEnd(trimStart(s))

\* file.name.replace(/\.[^/.]+$/, ''): the match is a '.' followed, up to the
\* end of the string, by one or more characters that are neither '/' nor '.'.
extensionMatches(name) ==
  {i \in 1..Len(name) :
     /\ Char(name, i) = "."
     /\ i < Len(name)
     /\ \A j \in (i + 1)..Len(name) : Char(name, j) \notin {"/", "."}}

\* The name cut at its first '.' instead.
removeExtension_firstDot(name) ==
  LET dots == {i \in 1..Len(name) : Char(name, i) = "."}
  IN IF dots = {} THEN name
     ELSE SubSeq(name, 1, (CHOOSE m \in dots : \A o \in dots : m <= o) - 1)

removeExtension(name) ==
  IF extensionMatches(name) = {} THEN name
  ELSE LET i == CHOOSE m \in extensionMatches(name) :
                  \A o \in extensionMatches(name) : m <= o
       IN SubSeq(name, 1, i - 1)

\* url.split(',')[1]: the text between the first comma and the next one (or
\* the end); undefined when there is no comma.
splitComma1(url) ==
  LET commas == {i \in 1..Len(url) : Char(url, i) = ","}
  IN IF commas = {} THEN Undefined
     ELSE LET c1 == CHOOSE m \in commas : \A o \in commas : m <= o
              rest == commas \ {c1}
              last == IF rest = {} THEN Len(url)
                      ELSE (CHOOSE m \in rest : \A o \in rest : m <= o) - 1
          IN SubSeq(url, c1 + 1, last)

\* --------------------------------------------------------- program strings
QualitySuffix == "\n\nhigh quality, cinematic, 4k"

ShortSuffix == "\n\n(Short video, ~4 seconds)"

MediumSuffix == "\n\n(Medium video, ~10 seconds)"

LongSuffix == "\n\n(Long video, ~15 seconds)"

UploadDescription == "A user-uploaded video."

NoVideosMessage == "No videos generated"

FetchFailedPrefix == "Failed to fetch video"

NoDataMessage == "Video generation returned no data."

mimeType == "video/mp4"

\* The gallery's initial records (constants.ts is not among the sources).
MOCK_VIDEOS ==
  << [id |-> "1", title |-> "Beach", description |-> "Waves",
      videoUrl |-> "https://cdn/beach.mp4"],
     [id |-> "2", title |-> "Owl", description |-> "An owl",
      videoUrl |-> "https://cdn/owl.mp4"] >>

\* self.crypto.randomUUID(): the n-th identifier handed out.
randomUUID(n) == "uuid-" \o ToString(n)

\* URL.createObjectURL(file)
createObjectURL(file, n) == "blob:" \o ToString(n)

\* ------------------------------------------------------------------- state
VARIABLES
  videos, playingVideo, editingVideo, isSaving, searchQuery, generationError,
  uuidCount,
  editPrompt, isMaskActive, numberOfVideos, quality, duration, aspectRatio,
  isDrawing, hasMask, canvasMarked, videoReady,
  pc, call, polls, items,
  atStart, lastOp

appVars == <<videos, playingVideo, editingVideo, isSaving, searchQuery,
             generationError, uuidCount>>

editorVars == <<editPrompt, isMaskActive, numberOfVideos, quality, duration,
                aspectRatio>>

maskVars == <<isDrawing, hasMask, canvasMarked, videoReady>>

flowVars == <<pc, call, polls, items, atStart>>

vars == <<appVars, editorVars, maskVars, flowVars, lastOp>>

\* ------------------------------------------------------ pure code, App.tsx
\* new Error(message), and a thrown value that is not an Error.
Error(message) == [isError |-> TRUE, message |-> message]

NonError(value) == [isError |-> FALSE, message |-> value]

\* What ai.models.generateVideos / ai.operations.getVideosOperation reject with.
ApiRejections ==
  {Error("API key not valid"), NonError("quota"), NonError("No videos generated")}

\* What fetch() rejects with when the network fails.
FetchRejection == Error("Failed to fetch")

\* type ErrorType
ErrorTypes == {"api_key", "generation_failed", "network", "unknown"}

\* A classification that reads the message of whatever was thrown, an Error
\* or not.
errorDetails_anyValue(error) ==
  IF includes(error.message, NoVideosMessage)
    THEN [title |-> "Generation Failed",
          messages |-> <<"The model did not return any video.",
                         "This could be due to your prompt. Please try a different prompt.">>,
          type |-> "generation_failed"]
  ELSE IF includes(error.message, FetchFailedPrefix)
    THEN [title |-> "Download Failed",
          messages |-> <<"The generated video could not be downloaded.",
                         "Please check your network connection and try again.">>,
          type |-> "network"]
  ELSE [title |-> "Generation Failed",
        messages |-> <<"Veo 3 is only available on the Paid Tier.",
                       "Please select your Cloud Project to get started.">>,
        type |-> "api_key"]

\* The catch block's classification of the caught value.
errorDetails(error) ==
  IF error.isError /\ includes(error.message, NoVideosMessage)
    THEN [title |-> "Generation Failed",
          messages |-> <<"The model did not return any video.",
                         "This could be due to your prompt. Please try a different prompt.">>,
          type |-> "generation_failed"]
  ELSE IF error.isError /\ includes(error.message, FetchFailedPrefix)
    THEN [title |-> "Download Failed",
          messages |-> <<"The generated video could not be downloaded.",
                         "Please check your network connection and try again.">>,
          type |-> "network"]
  ELSE [title |-> "Generation Failed",
        messages |-> <<"Veo 3 is only available on the Paid Tier.",
                       "Please select your Cloud Project to get started.">>,
        type |-> "api_key"]

\* handleSaveEdit's prompt: the description, then the quality suffix, then the
\* duration suffix.
\* The quality suffix appended whatever the tier.
qualityText_always(text, q) == text \o QualitySuffix

qualityText(text, q) ==
  IF q = "quality" THEN text \o QualitySuffix ELSE text

durationText(text, d) ==
  IF d = "short" THEN text \o ShortSuffix
  ELSE IF d = "medium" THEN text \o MediumSuffix
  ELSE IF d = "long" THEN text \o LongSuffix
  ELSE text

promptText(description, q, d) == durationText(qualityText(description, q), d)

\* The same in the earlier App variant: no branch for 'medium'.
durationText_part000(text, d) ==
  IF d = "short" THEN text \o ShortSuffix
  ELSE IF d = "long" THEN text \o LongSuffix
  ELSE text

promptText_part000(description, q, d) ==
  durationText_part000(qualityText(description, q), d)

remixTitle(title) == "Remix of \"" \o title \o "\""

searchTitle(prompt) == "Generated from: \"" \o prompt \o "\""

\* The title of the record at position index (0-based) of a batch.
videoTitle(baseTitle, index, n) ==
  IF n > 1
    THEN baseTitle \o " (" \o ToString(index + 1) \o "/" \o ToString(n) \o ")"
    ELSE baseTitle

\* The records of a batch all given the one identifier drawn before the map.
newVideos_oneId(videoObjects, n, baseTitle, baseDescription, first) ==
  [k \in 1..Len(videoObjects) |->
     [id |-> randomUUID(first + 1),
      title |-> videoTitle(baseTitle, k - 1, n),
      description |-> baseDescription,
      videoUrl |-> "data:" \o mimeType \o ";base64," \o videoObjects[k]]]

\* videoObjects.map(...): one record per returned source, in order; the k-th
\* record takes the (first + k)-th identifier.
newVideos(videoObjects, n, baseTitle, baseDescription, first) ==
  [k \in 1..Len(videoObjects) |->
     [id |-> randomUUID(first + k),
      title |-> videoTitle(baseTitle, k - 1, n),
      description |-> baseDescription,
      videoUrl |-> "data:" \o mimeType \o ";base64," \o videoObjects[k]]]

\* The predicate with the query left in the case it was typed in.
matchesSearch_queryAsTyped(video, query) ==
  \/ includes(toLowerCase(video.title), query)
  \/ includes(toLowerCase(video.description), query)

\* videos.filter(...) with the predicate of lines 272-274.
matchesSearch(video, query) ==
  \/ includes(toLowerCase(video.title), toLowerCase(query))
  \/ includes(toLowerCase(video.description), toLowerCase(query))

RECURSIVE filter(_, _)
filter(list, query) ==
  IF Len(list) = 0 THEN <<>>
  ELSE IF matchesSearch(Head(list), query)
    THEN <<Head(list)>> \o filter(Tail(list), query)
    ELSE filter(Tail(list), query)

filteredVideos == filter(videos, searchQuery)

\* ------------------------------------------------- pure code, EditVideoPage
\* The instruction placed in front of the description.
finalDescription_instructionFirst(video, maskActive, prompt) ==
  IF maskActive /\ trim(prompt) # ""
    THEN "In the highlighted area, please " \o prompt \o ".\n\n" \o video.description
    ELSE video.description

\* The instruction appended whenever it is not blank, mask or no mask.
finalDescription_ignoresMask(video, maskActive, prompt) ==
  IF trim(prompt) # ""
    THEN video.description \o "\n\nIn the highlighted area, please " \o prompt \o "."
    ELSE video.description

\* handleSave's finalDescription.
finalDescription(video, maskActive, prompt) ==
  IF maskActive /\ trim(prompt) # ""
    THEN video.description \o "\n\nIn the highlighted area, please " \o prompt \o "."
    ELSE video.description

\* incrementVideos without its clamp.
incrementVideosUpdater_unclamped(v) == v + 1

incrementVideosUpdater(v) == Min(v + 1, 4)

decrementVideosUpdater(v) == Max(v - 1, 1)

\* ------------------------------------------------------- external service
\* The result handles of a job that yields k results.
Handles(k) == [i \in 1..k |-> [uri |-> "https://veo/" \o ToString(i)]]

\* What a submission or a poll can return: an operation that is not done, or
\* a done one with no response, with a response whose generatedVideos is
\* undefined, or with a list of k handles.
Operations ==
  {[done |-> FALSE, hasResponse |-> FALSE, hasVideos |-> FALSE,
    generatedVideos |-> <<>>],
   [done |-> TRUE, hasResponse |-> FALSE, hasVideos |-> FALSE,
    generatedVideos |-> <<>>],
   [done |-> TRUE, hasResponse |-> TRUE, hasVideos |-> FALSE,
    generatedVideos |-> <<>>]}
    \cup {[done |-> TRUE, hasResponse |-> TRUE, hasVideos |-> TRUE,
           generatedVideos |-> Handles(k)] : k \in 0..MaxHandles}

\* What fetch() resolves to.
FetchResponses ==
  {[ok |-> TRUE, status |-> "200", statusText |-> "OK"],
   [ok |-> FALSE, status |-> "404", statusText |-> "Not Found"]}

\* The bytes behind the i-th handle, as FileReader.readAsDataURL presents them.
readAsDataURL(i) == "data:" \o mimeType \o ";base64," \o "AAA" \o ToString(i)

bloblToBase64(i) == splitComma1(readAsDataURL(i))

\* ------------------------------------------------------------ initial state
NoCall == [nocall |-> TRUE]

NoSnapshot == [nosnapshot |-> TRUE]

\* useState(...) of EditVideoPage and VideoMaskEditor: the state of a freshly
\* mounted editor, and the placeholder while no editor is mounted.
editorMounted ==
  /\ editPrompt' = ""
  /\ isMaskActive' = FALSE
  /\ numberOfVideos' = 1
  /\ quality' = "fast"
  /\ duration' = "medium"
  /\ aspectRatio' = "16:9"
  /\ isDrawing' = FALSE
  /\ hasMask' = FALSE
  /\ canvasMarked' = FALSE
  /\ videoReady' = FALSE

Init ==
  /\ videos = MOCK_VIDEOS
  /\ playingVideo = Null
  /\ editingVideo = Null
  /\ isSaving = FALSE
  /\ searchQuery = ""
  /\ generationError = Null
  /\ uuidCount = 0
  /\ editPrompt = ""
  /\ isMaskActive = FALSE
  /\ numberOfVideos = 1
  /\ quality = "fast"
  /\ duration = "medium"
  /\ aspectRatio = "16:9"
  /\ isDrawing = FALSE
  /\ hasMask = FALSE
  /\ canvasMarked = FALSE
  /\ videoReady = FALSE
  /\ pc = "idle"
  /\ call = NoCall
  /\ polls = 0
  /\ items = <<>>
  /\ atStart = NoSnapshot
  /\ lastOp = <<"init">>

\* ------------------------------------------------- what App's render shows
\* if (isSaving) return <SavingProgressPage />: nothing else is rendered.
\* The grid rendered whether or not a generation is being saved.
gridShown_whileSaving == editingVideo = Null

gridShown == ~isSaving /\ editingVideo = Null

editorShown == ~isSaving /\ editingVideo # Null

playerShown == ~isSaving /\ playingVideo # Null

errorShown == ~isSaving /\ generationError # Null

noResultsShown == gridShown /\ Len(filteredVideos) = 0 /\ searchQuery # ""

\* ------------------------------------------------------- App.tsx: handlers
\* event.target.files of the picker's change event: empty, or the chosen file.
FileLists == {<<>>} \cup {<<[name |-> n]>> : n \in FileNames}

handleFileChange(files) ==
  /\ gridShown
  /\ IF Len(files) = 0
       THEN UNCHANGED <<appVars>>
       ELSE /\ Len(videos) < MaxVideos
            /\ videos' =
                 <<[id |-> randomUUID(uuidCount + 1),
                    title |-> removeExtension(files[1].name),
                    description |-> UploadDescription,
                    videoUrl |-> createObjectURL(files[1], uuidCount + 1)]>> \o videos
            /\ uuidCount' = uuidCount + 1
            /\ UNCHANGED <<playingVideo, editingVideo, isSaving, searchQuery,
                           generationError>>
  /\ lastOp' = <<"handleFileChange", files>>
  /\ UNCHANGED <<editorVars, maskVars, flowVars>>

setSearchQuery(value) ==
  /\ gridShown
  /\ searchQuery' = value
  /\ lastOp' = <<"setSearchQuery">>
  /\ UNCHANGED <<videos, playingVideo, editingVideo, isSaving, generationError,
                 uuidCount, editorVars, maskVars, flowVars>>

\* VideoGrid's onPlayVideo, called with one of the videos it shows.
handlePlayVideo(video) ==
  /\ gridShown
  /\ playingVideo' = video
  /\ lastOp' = <<"handlePlayVideo">>
  /\ UNCHANGED <<videos, editingVideo, isSaving, searchQuery, generationError,
                 uuidCount, editorVars, maskVars, flowVars>>

handleClosePlayer ==
  /\ playerShown
  /\ playingVideo' = Null
  /\ lastOp' = <<"handleClosePlayer">>
  /\ UNCHANGED <<videos, editingVideo, isSaving, searchQuery, generationError,
                 uuidCount, editorVars, maskVars, flowVars>>

\* An edit that starts with the player left open.
handleStartEdit_keepsPlayer(video) ==
  /\ playerShown
  /\ editingVideo' = video
  /\ editorMounted
  /\ lastOp' = <<"handleStartEdit">>
  /\ UNCHANGED <<videos, playingVideo, isSaving, searchQuery, generationError,
                 uuidCount, flowVars>>

\* VideoPlayer's onEdit, called with the video being played.
handleStartEdit(video) ==
  /\ playerShown
  /\ playingVideo' = Null
  /\ editingVideo' = video
  /\ editorMounted
  /\ lastOp' = <<"handleStartEdit">>
  /\ UNCHANGED <<videos, isSaving, searchQuery, generationError, uuidCount,
                 flowVars>>

handleCancelEdit ==
  /\ editorShown
  /\ editingVideo' = Null
  /\ editorMounted
  /\ lastOp' = <<"handleCancelEdit">>
  /\ UNCHANGED <<videos, playingVideo, isSaving, searchQuery, generationError,
                 uuidCount, flowVars>>

\* ErrorModal's onClose
dismissError ==
  /\ errorShown
  /\ generationError' = Null
  /\ lastOp' = <<"dismissError">>
  /\ UNCHANGED <<videos, playingVideo, editingVideo, isSaving, searchQuery,
                 uuidCount, editorVars, maskVars, flowVars>>

\* generateAndAddNewVideos up to its first suspension: the two state updates,
\* and generateVideoFromText's call of ai.models.generateVideos.
\* A start of the flow that leaves the banner as it is.
generateAndAddNewVideos_keepsError(prompt, n, baseTitle, baseDescription, ratio, fromSearch) ==
  /\ Len(videos) < MaxVideos
  /\ isSaving' = TRUE
  /\ generationError' = generationError
  /\ pc' = "submit"
  /\ call' = [prompt |-> prompt, numberOfVideos |-> n, baseTitle |-> baseTitle,
              baseDescription |-> baseDescription, aspectRatio |-> ratio,
              fromSearch |-> fromSearch]
  /\ polls' = 0
  /\ items' = <<>>
  /\ atStart' = [videos |-> videos, playingVideo |-> playingVideo]

generateAndAddNewVideos(prompt, n, baseTitle, baseDescription, ratio, fromSearch) ==
  /\ Len(videos) < MaxVideos
  /\ isSaving' = TRUE
  /\ generationError' = Null
  /\ pc' = "submit"
  /\ call' = [prompt |-> prompt, numberOfVideos |-> n, baseTitle |-> baseTitle,
              baseDescription |-> baseDescription, aspectRatio |-> ratio,
              fromSearch |-> fromSearch]
  /\ polls' = 0
  /\ items' = <<>>
  /\ atStart' = [videos |-> videos, playingVideo |-> playingVideo]

\* A save that hands the submitted prompt on as the records' description.
saveEdit_promptAsDescription(originalVideo, options, prompt, ratio) ==
  /\ editorShown
  /\ editingVideo' = Null
  /\ editorMounted
  /\ generateAndAddNewVideos(prompt, options.numberOfVideos,
                             remixTitle(originalVideo.title),
                             prompt, ratio, FALSE)
  /\ UNCHANGED <<videos, playingVideo, searchQuery, uuidCount>>

saveEdit(originalVideo, options, prompt, ratio) ==
  /\ editorShown
  /\ editingVideo' = Null
  /\ editorMounted
  /\ generateAndAddNewVideos(prompt, options.numberOfVideos,
                             remixTitle(originalVideo.title),
                             originalVideo.description, ratio, FALSE)
  /\ UNCHANGED <<videos, playingVideo, searchQuery, uuidCount>>

handleSaveEdit(originalVideo, options) ==
  /\ saveEdit(originalVideo, options,
              promptText(originalVideo.description, options.quality,
                         options.duration),
              options.aspectRatio)
  /\ lastOp' = <<"handleSaveEdit", options>>

\* The earlier variant: its own prompt, and the aspect ratio fixed to 16:9.
handleSaveEdit_part000(originalVideo, options) ==
  /\ saveEdit(originalVideo, options,
              promptText_part000(originalVideo.description, options.quality,
                                 options.duration),
              "16:9")
  /\ lastOp' = <<"handleSaveEdit_part000", options>>

\* What EditVideoPage can hand to onSave for the video being edited.
SavedVideos ==
  {[editingVideo EXCEPT !.description = finalDescription(editingVideo, m, p)] :
     m \in BOOLEAN, p \in EditPrompts}

\* A sample of the options it can hand over: every count, each with one
\* quality, duration and aspect ratio (SpecEditor covers every combination).
SavedOptions ==
  {[numberOfVideos |-> 1, quality |-> "fast", duration |-> "medium",
    aspectRatio |-> "16:9"],
   [numberOfVideos |-> 2, quality |-> "quality", duration |-> "short",
    aspectRatio |-> "9:16"],
   [numberOfVideos |-> 3, quality |-> "fast", duration |-> "long",
    aspectRatio |-> "1:1"],
   [numberOfVideos |-> 4, quality |-> "quality", duration |-> "medium",
    aspectRatio |-> "16:9"]}

\* A search generation that asks for a portrait video.
handleGenerateFromSearch_portrait(prompt) ==
  /\ generateAndAddNewVideos(prompt, 1, searchTitle(prompt), prompt, "9:16", TRUE)
  /\ UNCHANGED <<videos, playingVideo, editingVideo, searchQuery, uuidCount,
                 editorVars, maskVars>>

handleGenerateFromSearch(prompt) ==
  /\ generateAndAddNewVideos(prompt, 1, searchTitle(prompt), prompt, "16:9", TRUE)
  /\ UNCHANGED <<videos, playingVideo, editingVideo, searchQuery, uuidCount,
                 editorVars, maskVars>>

handleSearchKeyDown(key) ==
  /\ gridShown
  /\ IF key = "Enter" /\ trim(searchQuery) # ""
       THEN handleGenerateFromSearch(searchQuery)
       ELSE UNCHANGED <<appVars, editorVars, maskVars, flowVars>>
  /\ lastOp' = <<"handleSearchKeyDown", key>>

\* The 'Generate Video' button of the no-results view.
clickGenerateVideo ==
  /\ noResultsShown
  /\ handleGenerateFromSearch(searchQuery)
  /\ lastOp' = <<"clickGenerateVideo", generationError # Null>>

\* ----------------------------------- the generation flow after its start
\* An end of the flow without the finally block: isSaving is left as it is.
flowEnds_staysSaving ==
  /\ isSaving' = isSaving
  /\ searchQuery' = IF call.fromSearch THEN "" ELSE searchQuery
  /\ pc' = "idle"
  /\ call' = NoCall
  /\ polls' = 0
  /\ items' = <<>>
  /\ atStart' = NoSnapshot
  /\ UNCHANGED <<editingVideo, editorVars, maskVars>>

\* Whatever ends the flow: finally { setIsSaving(false) }, and for a flow that
\* handleGenerateFromSearch started, its setSearchQuery('') after the await.
flowEnds ==
  /\ isSaving' = FALSE
  /\ searchQuery' = IF call.fromSearch THEN "" ELSE searchQuery
  /\ pc' = "idle"
  /\ call' = NoCall
  /\ polls' = 0
  /\ items' = <<>>
  /\ atStart' = NoSnapshot
  /\ UNCHANGED <<editingVideo, editorVars, maskVars>>

\* A catch block that keeps the records of the items already resolved.
catchError_keepsResolved(error) ==
  /\ generationError' = errorDetails(error)
  /\ flowEnds
  /\ videos' = [k \in 1..Len(SelectSeq(items, LAMBDA it : it.state = "resolved")) |->
                  [id |-> randomUUID(uuidCount + k),
                   title |-> call.baseTitle,
                   description |-> call.baseDescription,
                   videoUrl |-> "data:" \o mimeType \o ";base64,"
                                  \o SelectSeq(items, LAMBDA it : it.state = "resolved")[k].data]]
                \o videos
  /\ UNCHANGED <<playingVideo, uuidCount>>

\* A catch block that sets no banner.
catchError_noBanner(error) ==
  /\ flowEnds
  /\ UNCHANGED <<videos, playingVideo, uuidCount, generationError>>

\* catch (error) { ... setGenerationError(errorDetails) }
catchError(error) ==
  /\ generationError' = errorDetails(error)
  /\ flowEnds
  /\ UNCHANGED <<videos, playingVideo, uuidCount>>

\* The player opened on the last of the new records.
addNewVideos_playsLast(videoObjects) ==
  LET created == newVideos(videoObjects, call.numberOfVideos,
                           call.baseTitle, call.baseDescription,
                           uuidCount)
  IN /\ videos' = created \o videos
     /\ playingVideo' = created[Len(created)]
     /\ uuidCount' = uuidCount + Len(created)
     /\ flowEnds
     /\ UNCHANGED generationError

\* The new records put behind the existing ones.
addNewVideos_appends(videoObjects) ==
  LET created == newVideos(videoObjects, call.numberOfVideos,
                           call.baseTitle, call.baseDescription,
                           uuidCount)
  IN /\ videos' = videos \o created
     /\ playingVideo' = created[1]
     /\ uuidCount' = uuidCount + Len(created)
     /\ flowEnds
     /\ UNCHANGED generationError

\* Lines 157-179, once generateVideoFromText has returned videoObjects.
addNewVideos(videoObjects) ==
  IF Len(videoObjects) = 0
    THEN catchError(Error(NoDataMessage))
    ELSE LET created == newVideos(videoObjects, call.numberOfVideos,
                                  call.baseTitle, call.baseDescription,
                                  uuidCount)
         IN /\ videos' = created \o videos
            /\ playingVideo' = created[1]
            /\ uuidCount' = uuidCount + Len(created)
            /\ flowEnds
            /\ UNCHANGED generationError

\* generateVideoFromText once the job is done (lines 60-81): fail on a missing
\* response or an empty result list, otherwise start every item's fetch.
NoError == [isError |-> FALSE, message |-> ""]

\* A result check that lets an empty result list through.
jobError_allowsEmpty(operation) ==
  IF ~operation.hasResponse THEN Error(NoVideosMessage)
  ELSE IF ~operation.hasVideos THEN Error(NoVideosMessage)
  ELSE NoError

\* What lines 60-64 and 79-81 throw for a done operation, if anything.
jobError(operation) ==
  IF ~operation.hasResponse THEN Error(NoVideosMessage)
  ELSE IF \/ ~operation.hasVideos
          \/ Len(operation.generatedVideos) = 0
    THEN Error(NoVideosMessage)
  ELSE NoError

jobDone(operation) ==
  IF jobError(operation) # NoError
    THEN catchError(jobError(operation))
  ELSE IF Len(operation.generatedVideos) = 0
    THEN addNewVideos(<<>>)   \* Promise.all of no items resolves at once
  ELSE /\ pc' = "fetch"
       /\ items' = [i \in 1..Len(operation.generatedVideos) |->
                      [state |-> "fetching", data |-> ""]]
       /\ UNCHANGED <<appVars, editorVars, maskVars, call, polls, atStart>>

\* A loop that gives up on the first answer that is not done.
afterOperation_givesUp(operation) ==
  IF ~operation.done
    THEN catchError(Error(NoVideosMessage))
    ELSE jobDone(operation)

\* while (!operation.done) { wait 10 s; poll }
afterOperation(operation) ==
  IF ~operation.done
    THEN /\ pc' = "wait"
         /\ UNCHANGED <<appVars, editorVars, maskVars, call, polls, items,
                        atStart>>
    ELSE jobDone(operation)

\* The bounds on what the service answers: not-done at most MaxPolls times,
\* and no more handles than the list has room for.
Answerable(operation) ==
  /\ ~operation.done => polls < MaxPolls
  /\ Len(operation.generatedVideos) <= MaxVideos - Len(videos)

submitReturns(operation) ==
  /\ pc = "submit"
  /\ Answerable(operation)
  /\ afterOperation(operation)
  /\ lastOp' = <<"submitReturns", operation>>

submitRejects(error) ==
  /\ pc = "submit"
  /\ catchError(error)
  /\ lastOp' = <<"submitRejects", error>>

\* The 10 s timer fires and getVideosOperation is called.
timerFires ==
  /\ pc = "wait"
  /\ pc' = "poll"
  /\ polls' = polls + 1
  /\ lastOp' = <<"timerFires">>
  /\ UNCHANGED <<appVars, editorVars, maskVars, call, items, atStart>>

pollReturns(operation) ==
  /\ pc = "poll"
  /\ Answerable(operation)
  /\ afterOperation(operation)
  /\ lastOp' = <<"pollReturns", operation>>

pollRejects(error) ==
  /\ pc = "poll"
  /\ catchError(error)
  /\ lastOp' = <<"pollRejects", error>>

\* fetch() of item i resolves: a non-success status throws, which rejects the
\* Promise.all and so the flow; otherwise the item goes on to read its bytes.
fetchReturns(i, res) ==
  /\ pc = "fetch"
  /\ i \in 1..Len(items)
  /\ items[i].state = "fetching"
  /\ IF ~res.ok
       THEN catchError(Error(FetchFailedPrefix \o ": " \o res.status \o " "
                                \o res.statusText))
       ELSE /\ items' = [items EXCEPT ![i].state = "reading"]
            /\ UNCHANGED <<appVars, editorVars, maskVars, pc, call, polls,
                           atStart>>
  /\ lastOp' = <<"fetchReturns", i, res.ok, items>>

fetchRejects(i) ==
  /\ pc = "fetch"
  /\ i \in 1..Len(items)
  /\ items[i].state = "fetching"
  /\ catchError(FetchRejection)
  /\ lastOp' = <<"fetchRejects", i>>

\* A join that returns the sources in the order of completion seen from the
\* last item: the item that settles last comes first.
blobRead_lastFirst(i) ==
  /\ pc = "fetch"
  /\ i \in 1..Len(items)
  /\ items[i].state = "reading"
  /\ LET settled == [items EXCEPT ![i] = [state |-> "resolved",
                                          data |-> bloblToBase64(i)]]
         others == SelectSeq([j \in 1..Len(settled) |->
                                [index |-> j, data |-> settled[j].data]],
                             LAMBDA it : it.index # i)
     IN IF \A j \in 1..Len(settled) : settled[j].state = "resolved"
          THEN addNewVideos(<<settled[i].data>>
                              \o [j \in 1..Len(others) |-> others[j].data])
          ELSE /\ items' = settled
               /\ UNCHANGED <<appVars, editorVars, maskVars, pc, call, polls,
                              atStart>>
  /\ lastOp' = <<"blobRead", i, Len(items)>>

\* res.blob() and bloblToBase64 of item i settle; when this was the last item
\* Promise.all resolves, in handle order, and the records are added.
blobRead(i) ==
  /\ pc = "fetch"
  /\ i \in 1..Len(items)
  /\ items[i].state = "reading"
  /\ LET settled == [items EXCEPT ![i] = [state |-> "resolved",
                                          data |-> bloblToBase64(i)]]
     IN IF \A j \in 1..Len(settled) : settled[j].state = "resolved"
          THEN addNewVideos([j \in 1..Len(settled) |-> settled[j].data])
          ELSE /\ items' = settled
               /\ UNCHANGED <<appVars, editorVars, maskVars, pc, call, polls,
                              atStart>>
  /\ lastOp' = <<"blobRead", i, Len(items)>>

\* --------------------------------------------- part_001: the remix editor
setEditPrompt(value) ==
  /\ editorShown
  /\ isMaskActive
  /\ editPrompt' = value
  /\ lastOp' = <<"setEditPrompt">>
  /\ UNCHANGED <<appVars, isMaskActive, numberOfVideos, quality, duration,
                 aspectRatio, maskVars, flowVars>>

\* The two handlers, whatever the value they are called at.
incrementVideos ==
  /\ editorShown
  /\ numberOfVideos' = incrementVideosUpdater(numberOfVideos)
  /\ lastOp' = <<"incrementVideos", numberOfVideos>>
  /\ UNCHANGED <<appVars, editPrompt, isMaskActive, quality, duration,
                 aspectRatio, maskVars, flowVars>>

decrementVideos ==
  /\ editorShown
  /\ numberOfVideos' = decrementVideosUpdater(numberOfVideos)
  /\ lastOp' = <<"decrementVideos", numberOfVideos>>
  /\ UNCHANGED <<appVars, editPrompt, isMaskActive, quality, duration,
                 aspectRatio, maskVars, flowVars>>

setQuality(q) ==
  /\ editorShown
  /\ quality' = q
  /\ lastOp' = <<"setQuality">>
  /\ UNCHANGED <<appVars, editPrompt, isMaskActive, numberOfVideos, duration,
                 aspectRatio, maskVars, flowVars>>

setDuration(d) ==
  /\ editorShown
  /\ duration' = d
  /\ lastOp' = <<"setDuration">>
  /\ UNCHANGED <<appVars, editPrompt, isMaskActive, numberOfVideos, quality,
                 aspectRatio, maskVars, flowVars>>

setAspectRatio(a) ==
  /\ editorShown
  /\ aspectRatio' = a
  /\ lastOp' = <<"setAspectRatio">>
  /\ UNCHANGED <<appVars, editPrompt, isMaskActive, numberOfVideos, quality,
                 duration, maskVars, flowVars>>

editorOptions ==
  [numberOfVideos |-> numberOfVideos, quality |-> quality,
   duration |-> duration, aspectRatio |-> aspectRatio]

\* handleSave, with onSave bound to App.tsx's handleSaveEdit.
handleSave ==
  /\ saveEdit([editingVideo EXCEPT
                 !.description = finalDescription(editingVideo, isMaskActive,
                                                  editPrompt)],
              editorOptions,
              promptText(finalDescription(editingVideo, isMaskActive, editPrompt),
                         quality, duration),
              aspectRatio)
  /\ lastOp' = <<"handleSave", editingVideo, isMaskActive, editPrompt,
                 editorOptions>>

\* handleSave, with onSave bound to the earlier variant's handleSaveEdit.
handleSave_part000 ==
  /\ saveEdit([editingVideo EXCEPT
                 !.description = finalDescription(editingVideo, isMaskActive,
                                                  editPrompt)],
              editorOptions,
              promptText_part000(finalDescription(editingVideo, isMaskActive,
                                                  editPrompt),
                                 quality, duration),
              "16:9")
  /\ lastOp' = <<"handleSave_part000", editingVideo, isMaskActive, editPrompt,
                 editorOptions>>

\* ------------------------------------------ part_001: the mask overlay
startDrawing ==
  /\ editorShown
  /\ isDrawing' = TRUE
  /\ hasMask' = TRUE
  /\ isMaskActive' = IF ~hasMask THEN TRUE ELSE isMaskActive
  /\ lastOp' = <<"startDrawing">>
  /\ UNCHANGED <<appVars, editPrompt, numberOfVideos, quality, duration,
                 aspectRatio, canvasMarked, videoReady, flowVars>>

draw ==
  /\ editorShown
  /\ canvasMarked' = IF isDrawing THEN TRUE ELSE canvasMarked
  /\ lastOp' = <<"draw">>
  /\ UNCHANGED <<appVars, editorVars, isDrawing, hasMask, videoReady, flowVars>>

\* A pointer-up that also drops the mask flag.
stopDrawing_dropsMask ==
  /\ editorShown
  /\ isDrawing' = FALSE
  /\ hasMask' = FALSE
  /\ lastOp' = <<"stopDrawing">>
  /\ UNCHANGED <<appVars, editorVars, canvasMarked, videoReady, flowVars>>

\* onMouseUp and onMouseLeave
stopDrawing ==
  /\ editorShown
  /\ isDrawing' = FALSE
  /\ lastOp' = <<"stopDrawing">>
  /\ UNCHANGED <<appVars, editorVars, hasMask, canvasMarked, videoReady,
                 flowVars>>

\* The button is rendered only while hasMask.
clearMask ==
  /\ editorShown
  /\ hasMask
  /\ canvasMarked' = FALSE
  /\ hasMask' = FALSE
  /\ isMaskActive' = FALSE
  /\ lastOp' = <<"clearMask">>
  /\ UNCHANGED <<appVars, editPrompt, numberOfVideos, quality, duration,
                 aspectRatio, isDrawing, videoReady, flowVars>>

\* 'loadedmetadata' and 'resize': assigning canvas.width clears the canvas.
setCanvasDimensions(loaded) ==
  /\ editorShown
  /\ canvasMarked' = FALSE
  /\ videoReady' = IF loaded THEN TRUE ELSE videoReady
  /\ lastOp' = <<"setCanvasDimensions">>
  /\ UNCHANGED <<appVars, editorVars, isDrawing, hasMask, flowVars>>

\* ---------------------------------------------------------- specifications
\* The App: gallery, player, search, upload and the generation flow, with the
\* editor reduced to what it can hand to onSave.
Next ==
  \/ \E files \in FileLists : handleFileChange(files)
  \/ \E value \in SearchInputs : setSearchQuery(value)
  \/ \E i \in 1..Len(filteredVideos) : handlePlayVideo(filteredVideos[i])
  \/ handleClosePlayer
  \/ handleStartEdit(playingVideo)
  \/ handleCancelEdit
  \/ dismissError
  \/ /\ editorShown
     /\ \E originalVideo \in SavedVideos, options \in SavedOptions :
          handleSaveEdit(originalVideo, options)
  \/ \E key \in Keys : handleSearchKeyDown(key)
  \/ clickGenerateVideo
  \/ \E operation \in Operations : submitReturns(operation)
  \/ \E error \in ApiRejections : submitRejects(error)
  \/ timerFires
  \/ \E operation \in Operations : pollReturns(operation)
  \/ \E error \in ApiRejections : pollRejects(error)
  \/ \E i \in 1..MaxHandles, res \in FetchResponses : fetchReturns(i, res)
  \/ \E i \in 1..MaxHandles : fetchRejects(i)
  \/ \E i \in 1..MaxHandles : blobRead(i)

Spec == Init /\ [][Next]_vars

\* The remix editor on a record of the gallery, up to the request that a save
\* submits.
NextEditor ==
  \/ \E i \in 1..Len(filteredVideos) : handlePlayVideo(filteredVideos[i])
  \/ handleStartEdit(playingVideo)
  \/ handleCancelEdit
  \/ \E value \in EditPrompts : setEditPrompt(value)
  \/ incrementVideos
  \/ decrementVideos
  \/ \E q \in Qualities : setQuality(q)
  \/ \E d \in Durations : setDuration(d)
  \/ \E a \in AspectRatios : setAspectRatio(a)
  \/ handleSave
  \/ handleSave_part000
  \/ startDrawing
  \/ draw
  \/ stopDrawing
  \/ clearMask
  \/ \E loaded \in BOOLEAN : setCanvasDimensions(loaded)

SpecEditor == Init /\ [][NextEditor]_vars

\* The generation flow under fair scheduling: the handlers that lead to a
\* request, and the steps of the flow. Each awaited call settles (the
\* submission, the timer, each poll, each item's fetch and conversion); the
\* job is done after at most MaxPolls answers that say it is not.
SubmitSettles ==
  \/ \E operation \in Operations : submitReturns(operation)
  \/ \E error \in ApiRejections : submitRejects(error)

PollSettles ==
  \/ \E operation \in Operations : pollReturns(operation)
  \/ \E error \in ApiRejections : pollRejects(error)

ItemSettles ==
  \/ \E i \in 1..MaxHandles, res \in FetchResponses : fetchReturns(i, res)
  \/ \E i \in 1..MaxHandles : fetchRejects(i)
  \/ \E i \in 1..MaxHandles : blobRead(i)

NextFlow ==
  \/ setSearchQuery("cat")
  \/ /\ Len(filteredVideos) > 0
     /\ handlePlayVideo(filteredVideos[1])
  \/ handleStartEdit(playingVideo)
  \/ /\ editorShown
     /\ \E options \in {o \in SavedOptions : o.numberOfVideos <= 2} :
          handleSaveEdit(editingVideo, options)
  \/ handleSearchKeyDown("Enter")
  \/ clickGenerateVideo
  \/ SubmitSettles
  \/ timerFires
  \/ PollSettles
  \/ ItemSettles

Fairness ==
  /\ WF_vars(SubmitSettles)
  /\ WF_vars(timerFires)
  /\ WF_vars(PollSettles)
  /\ WF_vars(ItemSettles)

SpecFlow == Init /\ [][NextFlow]_vars /\ Fairness

\* The requests the App submits: the editor's count and aspect ratio, a save
\* through either variant of handleSaveEdit, and the two ways of generating
\* from the search box, up to the call of ai.models.generateVideos.
NextRequest ==
  \/ \E i \in 1..Len(filteredVideos) : handlePlayVideo(filteredVideos[i])
  \/ handleStartEdit(playingVideo)
  \/ handleCancelEdit
  \/ incrementVideos
  \/ decrementVideos
  \/ \E a \in AspectRatios : setAspectRatio(a)
  \/ handleSave
  \/ handleSave_part000
  \/ \E value \in SearchInputs : setSearchQuery(value)
  \/ \E key \in Keys : handleSearchKeyDown(key)
  \/ clickGenerateVideo

SpecRequest == Init /\ [][NextRequest]_vars

\* ================================================================ properties
\* The steps the properties speak about, read off lastOp.
IsSave(op) == op[1] \in {"handleSave", "handleSave_part000"}

\* An answer of the service that is done and holds no result handle.
ZeroResults(operation) ==
  /\ operation.done
  /\ \/ ~operation.hasResponse
     \/ ~operation.hasVideos
     \/ Len(operation.generatedVideos) = 0

\* The instruction phrase of the editor, for the instruction text p.
InstructionPhrase(p) == "\n\nIn the highlighted area, please " \o p \o "."

\* p holds a character that is not white space.
NotBlank(p) == \E i \in 1..Len(p) : Char(p, i) \notin {" ", "\n", "\t", "\r"}

QualitySuffixOf(q) ==
  CASE q = "fast" -> ""
    [] q = "quality" -> "\n\nhigh quality, cinematic, 4k"

\* The duration suffixes as App.tsx appends them.
DurationSuffixOf(d) ==
  CASE d = "short" -> "\n\n(Short video, ~4 seconds)"
    [] d = "medium" -> "\n\n(Medium video, ~10 seconds)"
    [] d = "long" -> "\n\n(Long video, ~15 seconds)"

\* The duration suffixes with none for the default tier, as the earlier
\* variant appends them.
DurationSuffixNoDefault(d) ==
  CASE d = "short" -> "\n\n(Short video, ~4 seconds)"
    [] d = "medium" -> ""
    [] d = "long" -> "\n\n(Long video, ~15 seconds)"

\* ----------------------------------------------------------------------- C1
\* C1: numberOfVideos starts at 1 in a freshly opened editor, stays within
\* 1..4 under every sequence of incrementVideos and decrementVideos, and is
\* left unchanged by incrementVideos at 4 and by decrementVideos at 1.
C1_VariationCountClamped ==
  /\ numberOfVideos \in 1..4
  /\ lastOp[1] = "handleStartEdit" => numberOfVideos = 1
  /\ (lastOp[1] = "incrementVideos" /\ lastOp[2] = 4) => numberOfVideos = 4
  /\ (lastOp[1] = "decrementVideos" /\ lastOp[2] = 1) => numberOfVideos = 1
  /\ (lastOp[1] = "incrementVideos" /\ lastOp[2] < 4) => numberOfVideos = lastOp[2] + 1
  /\ (lastOp[1] = "decrementVideos" /\ lastOp[2] > 1) => numberOfVideos = lastOp[2] - 1

\* incrementVideos has just been called at 4.
C1_Witness ==
  /\ editorShown
  /\ lastOp = <<"incrementVideos", 4>>
  /\ numberOfVideos = 4

\* ----------------------------------------------------------------------- C2
\* C2: a step in which one item's fetch returns a non-success status ends the
\* generation in failure: the error banner is set, isSaving is false, and the
\* gallery list and playingVideo are what they were when the request started.
C2_FetchStatusFailureAddsNothing ==
  [][(lastOp'[1] = "fetchReturns" /\ ~lastOp'[3])
       => /\ pc' = "idle"
          /\ ~isSaving'
          /\ generationError' # Null
          /\ videos' = atStart.videos
          /\ videos' = videos
          /\ playingVideo' = atStart.playingVideo
          /\ playingVideo' = playingVideo]_vars

\* A batch of two failed on one item after the other one had been fetched.
C2_Witness ==
  /\ lastOp[1] = "fetchReturns"
  /\ ~lastOp[3]
  /\ Len(lastOp[4]) = 2
  /\ \E j \in 1..2 : j # lastOp[2] /\ lastOp[4][j].state = "resolved"
  /\ pc = "idle"
  /\ generationError # Null

\* ----------------------------------------------------------------------- C3
\* C3: when a submission or a poll reports the job done with no result handle
\* (no response, no result list, or an empty one), the error thrown is 'No
\* videos generated', no fetch is started, no record is added and the banner
\* is set with type generation_failed.
C3_ZeroResultsFail ==
  [][(lastOp'[1] \in {"submitReturns", "pollReturns"} /\ ZeroResults(lastOp'[2]))
       => /\ pc' = "idle"
          /\ items' = <<>>
          /\ videos' = videos
          /\ playingVideo' = playingVideo
          /\ ~isSaving'
          /\ generationError' # Null
          /\ generationError'.type = "generation_failed"
          /\ generationError'.messages[1] = "The model did not return any video."
          /\ jobError(lastOp'[2]) = [isError |-> TRUE,
                                     message |-> "No videos generated"]]_vars

\* A poll has just reported the job done with an empty result list.
C3_Witness ==
  /\ lastOp[1] = "pollReturns"
  /\ lastOp[2].done /\ lastOp[2].hasVideos
  /\ Len(lastOp[2].generatedVideos) = 0
  /\ generationError # Null
  /\ generationError.type = "generation_failed"

\* ----------------------------------------------------------------------- C4
\* C4: every generation that returns successfully returns exactly as many
\* sources as were requested.
C4_ReturnsRequestedCount ==
  [][(lastOp'[1] = "blobRead" /\ pc' = "idle")
       => lastOp'[3] = call.numberOfVideos]_vars

\* ----------------------------------------------------------------------- C5
\* C5: a successful remix with requested count N adds exactly N records; for
\* N > 1 the i-th from the head is titled 'Remix of "T" (i/N)', for N = 1 the
\* one record is titled 'Remix of "T"'.
C5_RemixTitles ==
  [][(lastOp'[1] = "blobRead" /\ pc' = "idle" /\ ~call.fromSearch)
       => LET n == call.numberOfVideos
          IN /\ Len(videos') = Len(videos) + n
             /\ SubSeq(videos', n + 1, Len(videos')) = videos
             /\ \A i \in 1..n :
                  videos'[i].title =
                    IF n > 1
                      THEN call.baseTitle \o " (" \o ToString(i) \o "/"
                             \o ToString(n) \o ")"
                      ELSE call.baseTitle]_vars

\* ----------------------------------------------------------------------- C6
\* C6 as stated: the prompt a save submits is the description it was handed,
\* then the quality suffix exactly for 'quality', then the duration suffix,
\* with none for medium.
C6_PromptNoSuffixForMedium ==
  IsSave(lastOp) =>
    call.prompt = call.baseDescription \o QualitySuffixOf(lastOp[5].quality)
                    \o DurationSuffixNoDefault(lastOp[5].duration)

\* C6 amended: in App.tsx every duration, medium included, contributes its
\* own phrase; only the earlier variant leaves medium without one.
C6_PromptSuffixes ==
  /\ lastOp[1] = "handleSave" =>
       call.prompt = call.baseDescription \o QualitySuffixOf(lastOp[5].quality)
                       \o DurationSuffixOf(lastOp[5].duration)
  /\ lastOp[1] = "handleSave_part000" =>
       call.prompt = call.baseDescription \o QualitySuffixOf(lastOp[5].quality)
                       \o DurationSuffixNoDefault(lastOp[5].duration)

\* A save through App.tsx with quality 'quality' and duration 'medium'.
C6_Witness ==
  /\ lastOp[1] = "handleSave"
  /\ lastOp[5].quality = "quality"
  /\ lastOp[5].duration = "medium"
  /\ pc = "submit"

\* ----------------------------------------------------------------------- C7
\* C7 as stated: when the instruction phrase is included it is the last
\* component: description, quality suffix, duration suffix, instruction.
C7_InstructionLast ==
  (lastOp[1] = "handleSave" /\ lastOp[3] /\ NotBlank(lastOp[4])) =>
    call.prompt = lastOp[2].description \o QualitySuffixOf(lastOp[5].quality)
                    \o DurationSuffixOf(lastOp[5].duration)
                    \o InstructionPhrase(lastOp[4])

\* C7 amended: when the instruction phrase is included it directly follows
\* the description and comes before the quality and duration suffixes.
C7_InstructionAfterDescription ==
  /\ (lastOp[1] = "handleSave" /\ lastOp[3] /\ NotBlank(lastOp[4])) =>
       call.prompt = lastOp[2].description \o InstructionPhrase(lastOp[4])
                       \o QualitySuffixOf(lastOp[5].quality)
                       \o DurationSuffixOf(lastOp[5].duration)
  /\ (lastOp[1] = "handleSave_part000" /\ lastOp[3] /\ NotBlank(lastOp[4])) =>
       call.prompt = lastOp[2].description \o InstructionPhrase(lastOp[4])
                       \o QualitySuffixOf(lastOp[5].quality)
                       \o DurationSuffixNoDefault(lastOp[5].duration)

\* A save with the mask active, an instruction and both suffixes.
C7_Witness ==
  /\ lastOp[1] = "handleSave"
  /\ lastOp[3]
  /\ lastOp[4] = "add a cat"
  /\ lastOp[5].quality = "quality"
  /\ lastOp[5].duration = "long"

\* ----------------------------------------------------------------------- C8
\* C8: a save appends the instruction phrase to the description exactly when
\* the mask is active and the instruction text is not blank at that moment;
\* the mask-active flag follows the mask, so after clearMask nothing is
\* appended, whatever the instruction text still holds.
C8_InstructionIffMaskAndText ==
  /\ isMaskActive = hasMask
  /\ IsSave(lastOp) =>
       /\ (lastOp[3] /\ NotBlank(lastOp[4])) =>
            call.baseDescription =
              lastOp[2].description \o InstructionPhrase(lastOp[4])
       /\ ~(lastOp[3] /\ NotBlank(lastOp[4])) =>
            call.baseDescription = lastOp[2].description
       /\ \E suffix \in {QualitySuffixOf(q) \o d : q \in Qualities,
                         d \in {DurationSuffixOf(x) : x \in Durations}
                                 \cup {""}} :
            call.prompt = call.baseDescription \o suffix

\* A save with the instruction text still there and the mask cleared.
C8_Witness ==
  /\ lastOp[1] = "handleSave"
  /\ ~lastOp[3]
  /\ lastOp[4] = "add a cat"
  /\ call.baseDescription = lastOp[2].description

\* ----------------------------------------------------------------------- C9
\* Two characters that are equal, or the two cases of one letter.
CasePairs ==
  {<<Char("ABCDEFGHIJKLMNOPQRSTUVWXYZ", i), Char("abcdefghijklmnopqrstuvwxyz", i)>> :
     i \in 1..26}

SameLetter(a, b) == a = b \/ <<a, b>> \in CasePairs \/ <<b, a>> \in CasePairs

\* s contains q when the two are compared without regard to case.
ContainsIgnoringCase(s, q) ==
  \E i \in 0..(Len(s) - Len(q)) :
    \A k \in 1..Len(q) : SameLetter(Char(s, i + k), Char(q, k))

VisibleIndices ==
  {i \in 1..Len(videos) :
     \/ ContainsIgnoringCase(videos[i].title, searchQuery)
     \/ ContainsIgnoringCase(videos[i].description, searchQuery)}

\* C9: the filtered list holds exactly the records whose title or description
\* contains the search string, case ignored, in the order of the gallery
\* list; for the empty search string it is the whole list.
C9_FilterExact ==
  LET shown == filteredVideos
      visible == VisibleIndices
  IN /\ Len(shown) = Cardinality(visible)
     /\ \A j \in 1..Len(shown) :
          \E i \in visible :
            /\ shown[j] = videos[i]
            /\ Cardinality({m \in visible : m < i}) = j - 1
     /\ searchQuery = "" => shown = videos

\* An upper-case search string that keeps some records and drops others.
C9_Witness ==
  /\ searchQuery = "WAVE"
  /\ Len(videos) >= 3
  /\ Len(filteredVideos) >= 1
  /\ Len(filteredVideos) < Len(videos)

\* ---------------------------------------------------------------------- C10
\* title is name without its final extension: name is title, a '.', and one
\* or more characters with no '.' and no '/'; or name has no such ending and
\* title is name.
WithoutExtension(title, name) ==
  LET endings == {k \in 1..(Len(name) - 1) :
                    /\ Char(name, Len(name) - k) = "."
                    /\ \A j \in (Len(name) - k + 1)..Len(name) :
                         Char(name, j) # "." /\ Char(name, j) # "/"}
  IN IF endings = {} THEN title = name
     ELSE \E k \in endings : name = title \o "." \o SubSeq(name, Len(name) - k + 1, Len(name))

\* C10: an upload puts exactly one new record at the head of the list, titled
\* with the file name minus its final extension and described as 'A
\* user-uploaded video.', keeps the earlier records in order, and leaves
\* playingVideo, editingVideo, isSaving and generationError alone; with no
\* file chosen nothing changes.
C10_UploadPrepends ==
  [][lastOp'[1] = "handleFileChange"
       => IF Len(lastOp'[2]) = 0
            THEN UNCHANGED <<appVars, editorVars, maskVars, flowVars>>
            ELSE /\ Len(videos') = Len(videos) + 1
                 /\ Tail(videos') = videos
                 /\ WithoutExtension(videos'[1].title, lastOp'[2][1].name)
                 /\ videos'[1].description = "A user-uploaded video."
                 /\ \A i \in 1..Len(videos) : videos'[1].id # videos[i].id
                 /\ UNCHANGED <<playingVideo, editingVideo, isSaving,
                                generationError>>]_vars

\* 'a.tar.gz' uploaded while a video is playing and the error banner is up.
C10_Witness ==
  /\ lastOp[1] = "handleFileChange"
  /\ Len(lastOp[2]) = 1
  /\ lastOp[2][1].name = "a.tar.gz"
  /\ videos[1].title = "a.tar"
  /\ playingVideo # Null
  /\ generationError # Null

\* ---------------------------------------------------------------------- C11
\* sub occurs somewhere in s.
Occurs(sub, s) ==
  \E i \in 0..(Len(s) - Len(sub)) : SubSeq(s, i + 1, i + Len(sub)) = sub

\* The category the documented rule gives a caught value.
CategoryOf(error) ==
  IF error.isError /\ Occurs("No videos generated", error.message)
    THEN "generation_failed"
  ELSE IF error.isError /\ Occurs("Failed to fetch video", error.message)
    THEN "network"
  ELSE "api_key"

\* The step op is one in which the generation flow fails.
IsFailure(op) ==
  \/ op[1] \in {"submitRejects", "pollRejects", "fetchRejects"}
  \/ op[1] \in {"submitReturns", "pollReturns"} /\ ZeroResults(op[2])
  \/ op[1] = "fetchReturns" /\ ~op[3]

\* The value the catch block of the failing step op has caught.
Caught(op) ==
  CASE op[1] \in {"submitRejects", "pollRejects"} -> op[2]
    [] op[1] = "fetchRejects" -> FetchRejection
    [] op[1] \in {"submitReturns", "pollReturns"} ->
         [isError |-> TRUE, message |-> "No videos generated"]
    [] op[1] = "fetchReturns" ->
         [isError |-> TRUE, message |-> "Failed to fetch video: 404 Not Found"]

\* Thrown values of every kind: both phrases, one, none, another case, empty,
\* and values that are not Errors.
ErrorSamples ==
  {[isError |-> TRUE, message |-> "No videos generated"],
   [isError |-> TRUE, message |-> "Failed to fetch video: 500 Server Error"],
   [isError |-> TRUE, message |-> "Failed to fetch video after No videos generated"],
   [isError |-> TRUE, message |-> "no videos generated"],
   [isError |-> TRUE, message |-> "Failed to fetch"],
   [isError |-> TRUE, message |-> "Video generation returned no data."],
   [isError |-> TRUE, message |-> ""],
   [isError |-> FALSE, message |-> "No videos generated"],
   [isError |-> FALSE, message |-> "Failed to fetch video"]}

\* Every sample, and every value the model's service rejects with, gets the
\* category of the documented rule.
SamplesClassified ==
  \A e \in ErrorSamples \cup ApiRejections \cup {FetchRejection} :
    /\ errorDetails(e).type \in ErrorTypes
    /\ errorDetails(e).type = CategoryOf(e)

\* C11: the classification gives every caught value one category of
\* ErrorType: generation_failed for an Error whose message contains 'No videos
\* generated', otherwise network for one whose message contains 'Failed to
\* fetch video', and api_key for everything else, values that are not Errors
\* and rejected submissions included; the banner of every failed flow carries
\* the category of the value that was caught.
C11_ClassificationTotal ==
  /\ SamplesClassified
  /\ IsFailure(lastOp) =>
       /\ generationError # Null
       /\ generationError.type \in ErrorTypes
       /\ generationError.type = CategoryOf(Caught(lastOp))
       /\ generationError = errorDetails(Caught(lastOp))

\* A submission rejected with a value that is not an Error, though its text
\* holds 'No videos generated', is shown with the fallback category.
C11_Witness ==
  /\ lastOp[1] = "submitRejects"
  /\ ~lastOp[2].isError
  /\ lastOp[2].message = "No videos generated"
  /\ generationError # Null
  /\ generationError.type = "api_key"

\* ---------------------------------------------------------------------- C12
\* C12: every failure of an item's download, a non-success status as well as
\* a rejected fetch, is shown with the network category.
C12_DownloadFailureIsNetwork ==
  (\/ lastOp[1] = "fetchRejects"
   \/ lastOp[1] = "fetchReturns" /\ ~lastOp[3])
    => /\ generationError # Null
       /\ generationError.type = "network"

\* ---------------------------------------------------------------------- C13
\* The handlers that start a generation.
StartOps ==
  {"handleSaveEdit", "handleSaveEdit_part000", "handleSave", "handleSave_part000",
   "handleSearchKeyDown", "clickGenerateVideo"}

\* C13: a step in which the flow fails, at submission, at a poll, on an empty
\* result or at a download, ends the flow with the banner set, isSaving false
\* and the gallery list as it was when the flow started; the code after the
\* orchestration call still runs (a search flow clears the search string);
\* and a flow starts only in a step of a save or search-generate handler.
C13_FailureEndsFlow ==
  [][/\ IsFailure(lastOp') =>
          /\ pc # "idle"
          /\ pc' = "idle"
          /\ call' = NoCall
          /\ generationError' # Null
          /\ ~isSaving'
          /\ videos' = atStart.videos
          /\ videos' = videos
          /\ call.fromSearch => searchQuery' = ""
     /\ (pc = "idle" /\ pc' # "idle") =>
          /\ lastOp'[1] \in StartOps
          /\ pc' = "submit"]_vars

\* A search generation has failed at a poll.
C13_Witness ==
  /\ lastOp[1] = "pollRejects"
  /\ pc = "idle"
  /\ generationError # Null
  /\ ~isSaving
  /\ searchQuery = ""
  /\ Len(videos) = 2

\* ---------------------------------------------------------------------- C14
\* The steps that mount or unmount the editor, and with it the mask editor.
Remounts ==
  {"handleStartEdit", "handleCancelEdit", "handleSave", "handleSave_part000"}

\* C14: a freshly mounted mask editor has hasMask and isDrawing false; while
\* it stays mounted, hasMask becomes true only by a pointer-down, which always
\* leaves it true, and false only by clearMask; isDrawing becomes true only by
\* a pointer-down, which always leaves it true, and false only by a pointer-up
\* or pointer-leave, which always leaves it false.
C14_MaskStateMachine ==
  [][/\ lastOp'[1] = "handleStartEdit" => ~hasMask' /\ ~isDrawing'
     /\ lastOp'[1] \notin Remounts =>
          /\ (~hasMask /\ hasMask') => lastOp'[1] = "startDrawing"
          /\ (hasMask /\ ~hasMask') => lastOp'[1] = "clearMask"
          /\ (~isDrawing /\ isDrawing') => lastOp'[1] = "startDrawing"
          /\ (isDrawing /\ ~isDrawing') => lastOp'[1] = "stopDrawing"
          /\ lastOp'[1] = "startDrawing" => hasMask' /\ isDrawing'
          /\ lastOp'[1] = "stopDrawing" => ~isDrawing' /\ hasMask' = hasMask
          /\ lastOp'[1] = "draw" => hasMask' = hasMask /\ isDrawing' = isDrawing
          /\ lastOp'[1] = "clearMask" => ~hasMask' /\ isDrawing' = isDrawing]_vars

\* A stroke has been drawn and ended: the mask stays, drawing has stopped.
C14_Witness ==
  /\ editorShown
  /\ lastOp[1] = "stopDrawing"
  /\ hasMask
  /\ canvasMarked
  /\ ~isDrawing

\* ---------------------------------------------------------------------- C15
\* C15: in the mask editor hasMask is true exactly when the overlay holds a
\* drawn mark.
C15_MaskSignalMatchesOverlay ==
  editorShown => (hasMask <=> canvasMarked)

\* ---------------------------------------------------------------------- C16
\* C16: every step leaves the gallery list as it is or puts new records in
\* front of it: the records it held are still there, unchanged and in the
\* same order, at the tail of the new list.
C16_ListGrowsByPrepending ==
  [][/\ Len(videos') >= Len(videos)
     /\ SubSeq(videos', Len(videos') - Len(videos) + 1, Len(videos')) = videos]_vars

\* A generation has put its record in front of an upload, which sits in
\* front of the initial records.
C16_Witness ==
  /\ lastOp[1] = "blobRead"
  /\ pc = "idle"
  /\ Len(videos) = 4
  /\ SubSeq(videos, 3, 4) = MOCK_VIDEOS
  /\ videos[2].description = "A user-uploaded video."
  /\ playingVideo = videos[1]

\* ---------------------------------------------------------------------- C17
\* C17: no two records of the gallery list have the same id.
C17_UniqueIds ==
  \A i, j \in 1..Len(videos) : videos[i].id = videos[j].id => i = j

\* A batch of two has been added in front of the two initial records.
C17_Witness ==
  /\ lastOp[1] = "blobRead"
  /\ lastOp[3] = 2
  /\ pc = "idle"
  /\ Len(videos) = 4
  /\ videos[1].id # videos[2].id
  /\ videos[1].id \notin {MOCK_VIDEOS[k].id : k \in 1..Len(MOCK_VIDEOS)}

\* ---------------------------------------------------------------------- C18
\* The step op, taken with the search string query, calls
\* generateAndAddNewVideos.
StartsGeneration(op, query) ==
  \/ op[1] \in {"handleSaveEdit", "handleSaveEdit_part000", "handleSave",
                "handleSave_part000", "clickGenerateVideo"}
  \/ /\ op[1] = "handleSearchKeyDown"
     /\ op[2] = "Enter"
     /\ \E i \in 1..Len(query) : Char(query, i) \notin {" ", "\n", "\t", "\r"}

\* The steps that are calls of a handler of a rendered element.
UserOps ==
  {"handleFileChange", "setSearchQuery", "handlePlayVideo", "handleClosePlayer",
   "handleStartEdit", "handleCancelEdit", "dismissError", "handleSaveEdit",
   "handleSaveEdit_part000", "handleSearchKeyDown", "clickGenerateVideo",
   "setEditPrompt", "incrementVideos", "decrementVideos", "setQuality",
   "setDuration", "setAspectRatio", "handleSave", "handleSave_part000",
   "startDrawing", "draw", "stopDrawing", "clearMask"}

\* C18: while a generation request is outstanding isSaving is true and only
\* the progress view is rendered, so that no handler of the grid, the editor,
\* the player or the banner is called; every step that starts a request is
\* taken while none is outstanding: at most one is outstanding.
C18_OneRequestAtATime ==
  [][/\ pc' # "idle" =>
          /\ isSaving'
          /\ lastOp'[1] \notin UserOps \/ pc = "idle"
     /\ StartsGeneration(lastOp', searchQuery) =>
          /\ pc = "idle"
          /\ ~isSaving
          /\ call = NoCall
          /\ pc' = "submit"]_vars

\* A request is outstanding, one of its two downloads already read.
C18_Witness ==
  /\ pc = "fetch"
  /\ Len(items) = 2
  /\ \E i \in 1..2 : items[i].state = "resolved"
  /\ isSaving
  /\ call # NoCall

\* ---------------------------------------------------------------------- C19
\* The step op is an answer of the service to the submission or to a poll.
IsObservation(op) == op[1] \in {"submitReturns", "pollReturns"}

\* C19: an answer that is not done leaves the flow running and waiting,
\* however many polls there have been; from the wait the only step is the
\* timer's, which issues exactly one poll; from a poll the only steps are its
\* settling; an answer that is done ends the polling for good, and a job done
\* at submission is never polled; no handler runs while the loop does.
C19_PollsUntilDone ==
  [][/\ (IsObservation(lastOp') /\ ~lastOp'[2].done) =>
          /\ pc' = "wait"
          /\ isSaving'
          /\ call' = call
          /\ UNCHANGED <<videos, playingVideo, generationError, polls>>
     /\ pc = "wait" =>
          /\ lastOp'[1] = "timerFires"
          /\ pc' = "poll"
          /\ polls' = polls + 1
     /\ pc = "poll" => lastOp'[1] \in {"pollReturns", "pollRejects"}
     /\ pc = "submit" => lastOp'[1] \in {"submitReturns", "submitRejects"}
     /\ polls' > polls => pc = "wait"
     /\ (IsObservation(lastOp') /\ lastOp'[2].done) => pc' \in {"fetch", "idle"}
     /\ pc = "fetch" => pc' \in {"fetch", "idle"} /\ polls' \in {polls, 0}
     /\ (lastOp'[1] = "submitReturns" /\ lastOp'[2].done) => polls' = 0
     /\ pc' = "fetch" => polls' = polls]_vars

\* The job was not done at submission nor at the first poll, and done at the
\* second: the downloads have started after two polls.
C19_Witness ==
  /\ lastOp[1] = "pollReturns"
  /\ lastOp[2].done
  /\ pc = "fetch"
  /\ polls = 2
  /\ isSaving

\* ---------------------------------------------------------------------- C20
\* C20: under fair scheduling of the awaited calls, every generation that has
\* started finishes, and isSaving, which it set, goes back to false, on the
\* path that adds records and on the path that sets the banner.
C20_GenerationFinishes ==
  /\ (pc # "idle") ~> (pc = "idle" /\ ~isSaving)
  /\ isSaving ~> ~isSaving

\* A generation has finished on the path that adds its records.
C20_Witness ==
  /\ lastOp[1] = "blobRead"
  /\ pc = "idle"
  /\ ~isSaving
  /\ generationError = Null
  /\ Len(videos) > 2

\* ---------------------------------------------------------------------- C21
\* The step op completes a generation successfully (the last item's bytes are
\* read) and leaves the flow at position p.
IsSuccess(op, p) == op[1] = "blobRead" /\ p = "idle"

\* The source the flow returns for the i-th result handle, as a data URL.
SourceUrl(i) == "data:video/mp4;base64,AAA" \o ToString(i)

\* C21: a generation that succeeds with k sources puts exactly k new records
\* in front of the existing ones, in the order of the sources, opens the
\* player on the first of them, which is the head of the list, leaves the
\* banner null and ends with isSaving false.
C21_SuccessPrependsAndPlays ==
  [][IsSuccess(lastOp', pc') =>
       LET k == lastOp'[3]
       IN /\ k >= 1
          /\ Len(videos') = Len(videos) + k
          /\ SubSeq(videos', k + 1, Len(videos')) = videos
          /\ \A i \in 1..k :
               /\ videos'[i].videoUrl = SourceUrl(i)
               /\ videos'[i].description = call.baseDescription
               /\ \A j \in 1..Len(videos) : videos'[i].id # videos[j].id
          /\ playingVideo' = videos'[1]
          /\ generationError' = Null
          /\ ~isSaving']_vars

\* A batch of two has succeeded: the player shows the first of the two.
C21_Witness ==
  /\ lastOp[1] = "blobRead"
  /\ lastOp[3] = 2
  /\ pc = "idle"
  /\ playingVideo = videos[1]
  /\ videos[1].videoUrl = "data:video/mp4;base64,AAA1"
  /\ videos[2].videoUrl = "data:video/mp4;base64,AAA2"
  /\ generationError = Null
  /\ ~isSaving

\* ---------------------------------------------------------------------- C22
\* C22: when the job is done every item's fetch is started in the same step;
\* no record is added while items are outstanding; the step that adds the
\* records is the one in which the last outstanding item settles; and the
\* i-th record added holds the source of the i-th result handle and the
\* index i in its title, whatever order the items settled in.
C22_BatchJoinedInHandleOrder ==
  [][/\ (pc # "fetch" /\ pc' = "fetch") =>
          /\ IsObservation(lastOp')
          /\ Len(items') = Len(lastOp'[2].generatedVideos)
          /\ \A i \in 1..Len(items') : items'[i].state = "fetching"
     /\ (pc = "fetch" /\ pc' = "fetch") =>
          /\ videos' = videos
          /\ Len(items') = Len(items)
          /\ \E i \in 1..Len(items') : items'[i].state # "resolved"
     /\ IsSuccess(lastOp', pc') =>
          /\ pc = "fetch"
          /\ \A j \in 1..Len(items) :
               IF j = lastOp'[2] THEN items[j].state = "reading"
                                 ELSE items[j].state = "resolved"
          /\ \A i \in 1..Len(items) :
               /\ videos'[i].videoUrl = SourceUrl(i)
               /\ call.numberOfVideos > 1 =>
                    videos'[i].title =
                      call.baseTitle \o " (" \o ToString(i) \o "/"
                        \o ToString(call.numberOfVideos) \o ")"]_vars

\* A batch of two in which the second item settled before the first.
C22_Witness ==
  /\ lastOp = <<"blobRead", 1, 2>>
  /\ pc = "idle"
  /\ videos[1].videoUrl = "data:video/mp4;base64,AAA1"
  /\ videos[2].videoUrl = "data:video/mp4;base64,AAA2"
  /\ videos[1].title = "Remix of \"Beach\" (1/2)"
  /\ videos[2].title = "Remix of \"Beach\" (2/2)"

\* ---------------------------------------------------------------------- C23
\* The descriptions the editor can hand to the save action for a record
\* described by d: d itself, or d with the instruction phrase of an
\* instruction that is not blank.
HandedDescriptions(d) ==
  {d} \cup {d \o InstructionPhrase(p) : p \in {q \in EditPrompts : NotBlank(q)}}

\* The texts a save appends to the prompt.
PromptSuffixes ==
  {"\n\nhigh quality, cinematic, 4k", "\n\n(Short video, ~4 seconds)",
   "\n\n(Medium video, ~10 seconds)", "\n\n(Long video, ~15 seconds)"}

\* C23: a save keeps, as the description of the records to come, the
\* description it was handed (the record's own, or that with the instruction
\* phrase), and submits it followed by the quality and duration suffixes;
\* every record a remix adds has that description and none of the suffixes.
C23_RemixKeepsHandedDescription ==
  [][/\ lastOp'[1] = "handleSaveEdit" =>
          /\ call'.baseDescription \in HandedDescriptions(editingVideo.description)
          /\ call'.prompt = call'.baseDescription
                              \o QualitySuffixOf(lastOp'[2].quality)
                              \o DurationSuffixOf(lastOp'[2].duration)
     /\ (IsSuccess(lastOp', pc') /\ ~call.fromSearch) =>
          \A i \in 1..lastOp'[3] :
            /\ videos'[i].description = call.baseDescription
            /\ videos'[i].description # call.prompt
            /\ \A s \in PromptSuffixes : ~Occurs(s, videos'[i].description)]_vars

\* A remix of a remix: the instruction of the first save is in the
\* description of the second remix.
C23_Witness ==
  /\ lastOp[1] = "blobRead"
  /\ pc = "idle"
  /\ videos[1].title = "Remix of \"Remix of \"Beach\"\""
  /\ Occurs("In the highlighted area, please add a cat.", videos[2].description)
  /\ Occurs(videos[2].description, videos[1].description)

C25_PlayerAndEditorExclusive ==
  /\ ~(playingVideo # Null /\ editingVideo # Null)
  /\ lastOp[1] = "handleStartEdit" =>
       playingVideo = Null /\ editingVideo # Null
  /\ IsSuccess(lastOp, pc) =>
       playingVideo = videos[1] /\ editingVideo = Null

\* A remix started from the editor has succeeded: the player shows the new
\* record and the editor is closed.
C25_Witness ==
  /\ lastOp[1] = "blobRead"
  /\ pc = "idle"
  /\ playingVideo # Null
  /\ playingVideo.title = "Remix of \"Beach\""
  /\ editingVideo = Null

\* ---------------------------------------------------------------------- C26
\* C26: in every reachable state where isSaving is true generationError is
\* null; a step that starts a generation leaves isSaving true and the banner
\* cleared, whatever the banner was; and a step that ends a generation leaves
\* generationError non-null exactly when that step is the generation's
\* failure, so a successful generation always ends without a banner.
C26_StartClearsBanner ==
  /\ [](isSaving => generationError = Null)
  /\ [][/\ (pc = "idle" /\ pc' # "idle") =>
             /\ lastOp'[1] \in StartOps
             /\ isSaving'
             /\ generationError' = Null
        /\ (pc # "idle" /\ pc' = "idle") =>
             /\ ~isSaving'
             /\ generationError' # Null <=> IsFailure(lastOp')
             /\ generationError' = Null <=> IsSuccess(lastOp', pc')]_vars

\* The 'Generate Video' button pressed while the banner of an earlier failure
\* was still set: the generation runs and the banner is cleared.
C26_Witness ==
  /\ lastOp = <<"clickGenerateVideo", TRUE>>
  /\ pc = "submit"
  /\ isSaving
  /\ generationError = Null

\* ---------------------------------------------------------------------- C27
\* C27 as stated: a generation started from the search box, by Enter or by the
\* 'Generate Video' button of the no-results view, is never submitted with a
\* prompt that is empty or only white space.
C27_SearchPromptNotBlank ==
  (pc = "submit" /\ call.fromSearch) => NotBlank(call.prompt)

====
